---- MODULE Spec2Model ----
(***************************************************************************)
(* Receipt-analysis chat: the ChatPanel client (apps/frontend/components/   *)
(* chat-panel.tsx) together with the orchestration pipeline it talks to     *)
(* (Turn Orchestrator, Analyzer Client, Dedup Engine, Receipt Store, Stream *)
(* Emitter).  The pipeline's code is not part of the frontend sources; it   *)
(* is modelled from the design document (sections 3 to 7) and the README.   *)
(*                                                                         *)
(* The pipeline serves the ChatPanel on slot "p" and other callers of the   *)
(* HTTP API (a second browser tab, a script) on slots "a" and "b".          *)
(***************************************************************************)
EXTENDS Integers, Sequences, FiniteSets, TLC

\* ------------------------------------------------------------- bounds
MaxTurns == 2
MaxStoreTurns == 3
MaxAttempts == 2
MaxDeltas == 1
MaxContent == 2
MaxCorrections == 1
MaxWire == 10
MaxEditorReqs == 2
MaxEditorTurns == 1
MaxStreamTurns == 1
MaxEvents == 3
MaxConvTurns == 3
MaxConvEvents == 2
MaxLiveTurns == 2

\* The connections the orchestrator serves: "p" is the ChatPanel's, "a" and
\* "b" are other callers of the HTTP API.
Slots == {"p", "a", "b"}

\* ------------------------------------------------------ receipt store
Statuses ==
  {"processed", "processed_with_warnings", "duplicate",
   "duplicate_candidate", "manually_corrected", "error"}

ProcessedStatuses == {"processed", "processed_with_warnings"}

NoFile == [name |-> "", bytes |-> 0, allowed |-> TRUE]

\* The files a caller can attach: f1 and f2 differ in bytes but describe the
\* same purchase, copy has the bytes of f1 under another name, exe is refused
\* by the upload constraints.
Files ==
  { [name |-> "f1", bytes |-> 1, allowed |-> TRUE],
    [name |-> "copy", bytes |-> 1, allowed |-> TRUE],
    [name |-> "exe", bytes |-> 1, allowed |-> FALSE] }
  \cup { [name |-> "f2", bytes |-> b, allowed |-> TRUE] : b \in 2..MaxContent }

\* Content fingerprint: a hash of the bytes, the file name plays no part.
Fingerprint(att) == att.bytes

\* The business key (vendor, total, issue date) the analyzer extracts.
KeyOf(att) == (att.bytes + 1) \div 2

VARIABLES
  conversations,   \* conversations[c]: the ordered Messages of conversation c
  receipts,        \* receipts[i]: the Receipt with identifier i
  extractionRuns,  \* one record per Analyzer Client invocation
  turns,           \* turns[t]: the turn task serving slot t
  emitted,         \* emitted[t]: the event types the Stream Emitter sent for slot t's turn
  wire,            \* SSE text on its way to the ChatPanel, as lines and newlines
  nTurns,          \* turns received so far
  nCorrections     \* manual corrections requested so far

backendVars ==
  <<conversations, receipts, extractionRuns, turns, emitted, wire, nTurns, nCorrections>>

VARIABLES
  conversationId,  \* ChatPanel state (useState), 0 stands for ""
  input,
  file,
  messages,
  loading,
  editReceiptId,
  editableReceipt,
  editorLoading,
  editorMessage,
  pc,              \* where the pending sendMessage call stands
  assistantId,     \* locals of the pending sendMessage / sendMessageStreaming call
  buffer,
  hasDelta,
  gotFinal,
  consumed,        \* the events the pending call has handled, in order
  lastFinal,       \* the payload of the final event handled last, Null if none
  nextId,          \* crypto.randomUUID(): the next fresh identifier
  editorReqs,      \* the editor's fetches still in flight, in the order issued
  lastIssued       \* the receipt id of the editor's fetch issued last, 0 if none

chatVars == <<conversationId, input, file, messages, loading>>

streamVars == <<pc, assistantId, buffer, hasDelta, gotFinal, consumed, lastFinal, nextId>>

editorVars ==
  <<editReceiptId, editableReceipt, editorLoading, editorMessage, editorReqs, lastIssued>>

panelVars == <<chatVars, streamVars, editorVars>>

vars == <<backendVars, panelVars>>

IdleTurn ==
  [phase |-> "idle", conv |-> 0, text |-> FALSE, att |-> NoFile, tid |-> 0,
   attempts |-> 0, last |-> "none", seen |-> 0, receipt |-> 0, deltas |-> 0,
   error |-> "none", sent |-> <<>>, tail |-> FALSE]

Null == [null |-> TRUE]

Undefined == [undefined |-> TRUE]

\* ----------------------------------------------------- stream emitter
NL == [k |-> "nl"]

JsonStringify(x) == [json |-> TRUE, val |-> x]

\* One SSE frame: "event: <type>\ndata: <json>\n\n".
Frame(ev, payload) ==
  << [k |-> "event", v |-> ev], NL,
     [k |-> "data", v |-> JsonStringify(payload)], NL, NL >>

FrameLen == Len(Frame("start", Null))

\* Backpressure: the emitting task suspends while the client has not read.
CanEmit(t) == t = "p" => Len(wire) + FrameLen <= MaxWire

Emit(t, ev, payload) ==
  /\ emitted' = [emitted EXCEPT ![t] = Append(@, ev)]
  /\ wire' = IF t = "p" THEN wire \o Frame(ev, payload) ELSE wire

\* --------------------------------------------------- turn orchestrator
\* The conversation a turn holds from its acceptance to its completion.
Holds(t, c) ==
  /\ turns[t].conv = c
  /\ turns[t].phase \in {"running", "analyzing", "analyzed", "failed", "streaming"}

Locked(c) == \E t \in Slots : Holds(t, c)

\* A request reaches the orchestrator on slot t.
Receive(t, conv, text, att, max) ==
  /\ turns[t].phase = "idle"
  /\ nTurns < max
  /\ nTurns' = nTurns + 1
  /\ turns' = [turns EXCEPT ![t] =
       [IdleTurn EXCEPT !.phase = "queued", !.conv = conv, !.text = text,
                        !.att = att, !.tid = nTurns + 1]]
  /\ emitted' = [emitted EXCEPT ![t] = <<>>]

TurnError(t) ==
  IF ~turns[t].text /\ turns[t].att = NoFile THEN "InvalidTurn"
  ELSE IF ~turns[t].att.allowed THEN "UnsupportedFile"
  ELSE IF turns[t].conv > Len(conversations) THEN "NotFound"
  ELSE "none"

\* A malformed turn is refused before anything is touched.
RejectTurn(t) ==
  /\ turns[t].phase = "queued"
  /\ TurnError(t) # "none"
  /\ turns' = [turns EXCEPT ![t].phase = "rejected", ![t].error = TurnError(t)]
  /\ UNCHANGED <<conversations, receipts, extractionRuns, emitted, wire, nTurns, nCorrections, panelVars>>

UserMessage(t) == [role |-> "user", tid |-> turns[t].tid]

AssistantMessage(t) == [role |-> "assistant", tid |-> turns[t].tid]

\* Step 1: resolve or create the Conversation, append the inbound Message,
\* announce the turn.  A turn of a conversation that is being served waits.
BeginTurn(t) ==
  /\ turns[t].phase = "queued"
  /\ TurnError(t) = "none"
  /\ CanEmit(t)
  /\ LET c == IF turns[t].conv = 0 THEN Len(conversations) + 1 ELSE turns[t].conv
     IN /\ ~Locked(c)
        /\ conversations' =
             IF turns[t].conv = 0
             THEN Append(conversations, <<UserMessage(t)>>)
             ELSE [conversations EXCEPT ![c] = Append(@, UserMessage(t))]
        /\ turns' = [turns EXCEPT ![t].phase = "running", ![t].conv = c]
        /\ Emit(t, "start", [conversation_id |-> c])
  /\ UNCHANGED <<receipts, extractionRuns, nTurns, nCorrections, panelVars>>

\* Step 2: classification.  An attachment takes the extraction path, text
\* alone is a query answered from the store.
Classify(t) ==
  /\ turns[t].phase = "running"
  /\ turns' = [turns EXCEPT ![t].phase =
       IF turns[t].att # NoFile THEN "analyzing" ELSE "streaming"]
  /\ UNCHANGED <<conversations, receipts, extractionRuns, emitted, wire, nTurns, nCorrections, panelVars>>

\* ------------------------------------------------------ analyzer client
AttemptOutcomes == {"success", "partial", "transient", "structural"}

\* A retry machine that gives up silently once the budget is spent.
DropWhenExhausted(n, outcome) ==
  CASE outcome \in {"success", "partial"} -> "analyzed"
    [] outcome = "structural" -> "failed"
    [] outcome = "transient" /\ n < MaxAttempts -> "analyzing"
    [] OTHER -> "streaming"

\* A retry machine that tries again after every failure.
RetryEveryFailure(n, outcome) ==
  CASE outcome \in {"success", "partial"} -> "analyzed"
    [] n < MaxAttempts -> "analyzing"
    [] OTHER -> "failed"

\* What the retry state machine does with the outcome of attempt number n.
AfterAttempt(n, outcome) ==
  CASE outcome \in {"success", "partial"} -> "analyzed"
    [] outcome = "structural" -> "failed"
    [] outcome = "transient" /\ n < MaxAttempts -> "analyzing"
    [] OTHER -> "failed"

AnalyzerAttempt(t, outcome) ==
  /\ turns[t].phase = "analyzing"
  /\ turns' = [turns EXCEPT
       ![t].attempts = @ + 1,
       ![t].last = outcome,
       ![t].seen = Len(receipts),
       ![t].phase = AfterAttempt(turns[t].attempts + 1, outcome)]
  /\ UNCHANGED <<conversations, receipts, extractionRuns, emitted, wire, nTurns, nCorrections, panelVars>>

\* --------------------------------------------------------- dedup engine
ExactMatches(rs, fp) ==
  {i \in DOMAIN rs : rs[i].status \in ProcessedStatuses /\ rs[i].fp = fp}

CandidateMatches(rs, key) ==
  {i \in DOMAIN rs : rs[i].status # "error" /\ rs[i].key = key}

Min(S) == CHOOSE x \in S : \A y \in S : x <= y

\* A dedup engine without the exact-match layer.
CandidateOnly(rs, fp, key, fields) ==
  IF CandidateMatches(rs, key) # {}
  THEN [status |-> "duplicate_candidate", dup_of |-> 0]
  ELSE [status |-> IF fields = "full" THEN "processed" ELSE "processed_with_warnings",
        dup_of |-> 0]

\* The verdict for a new receipt: its status and its back-reference.
DedupVerdict(rs, fp, key, fields) ==
  IF ExactMatches(rs, fp) # {}
  THEN [status |-> "duplicate", dup_of |-> Min(ExactMatches(rs, fp))]
  ELSE IF CandidateMatches(rs, key) # {}
  THEN [status |-> "duplicate_candidate", dup_of |-> 0]
  ELSE [status |-> IF fields = "full" THEN "processed" ELSE "processed_with_warnings",
        dup_of |-> 0]

\* The store as the turn saw it when the analyzer answered, before it took
\* the write lock.
StoreAtCheck(t) == SubSeq(receipts, 1, turns[t].seen)

\* The store the verdict is evaluated on: the one the insert goes to, read
\* again under the write lock.
StoreAtInsert(t) == receipts

\* Step 3, success: verdict and insert are one transaction on the store.
PersistReceipt(t) ==
  /\ turns[t].phase = "analyzed"
  /\ LET fields == IF turns[t].last = "success" THEN "full" ELSE "partial"
         fp == Fingerprint(turns[t].att)
         key == KeyOf(turns[t].att)
         v == DedupVerdict(StoreAtInsert(t), fp, key, fields)
         id == Len(receipts) + 1
     IN /\ receipts' = Append(receipts,
             [fp |-> fp, key |-> key, fields |-> fields, status |-> v.status,
              dup_of |-> v.dup_of, tid |-> turns[t].tid, created |-> v.status])
        /\ extractionRuns' = Append(extractionRuns,
             [tid |-> turns[t].tid, attempts |-> turns[t].attempts,
              outcome |-> "success", receipt |-> id])
        /\ turns' = [turns EXCEPT ![t].phase = "streaming", ![t].receipt = id]
  /\ UNCHANGED <<conversations, emitted, wire, nTurns, nCorrections, panelVars>>

\* Step 3, failure: the run and an error receipt without extracted fields.
PersistFailure(t) ==
  /\ turns[t].phase = "failed"
  /\ LET id == Len(receipts) + 1
     IN /\ receipts' = Append(receipts,
             [fp |-> Fingerprint(turns[t].att), key |-> 0, fields |-> "none",
              status |-> "error", dup_of |-> 0, tid |-> turns[t].tid,
              created |-> "error"])
        /\ extractionRuns' = Append(extractionRuns,
             [tid |-> turns[t].tid, attempts |-> turns[t].attempts,
              outcome |-> "failure", receipt |-> id])
        /\ turns' = [turns EXCEPT ![t].phase = "streaming", ![t].receipt = id]
  /\ UNCHANGED <<conversations, emitted, wire, nTurns, nCorrections, panelVars>>

\* ------------------------------------------------------ streaming reply
DeltaPieces == {"a"}

EmitDelta(t, piece) ==
  /\ turns[t].phase = "streaming"
  /\ turns[t].deltas < MaxDeltas
  /\ CanEmit(t)
  /\ turns' = [turns EXCEPT ![t].deltas = @ + 1]
  /\ Emit(t, "delta", [content |-> piece])
  /\ UNCHANGED <<conversations, receipts, extractionRuns, nTurns, nCorrections, panelVars>>

\* A Receipt as the API returns it.
ReceiptJson(rs, i) == [id |-> i, status |-> rs[i].status, key |-> rs[i].key]

FinalPayload(t) ==
  [conversation_id |-> turns[t].conv,
   assistant_message |-> <<"reply">>,
   receipt_id |-> turns[t].receipt,
   data |-> IF turns[t].receipt = 0 THEN [summary |-> "query"]
            ELSE ReceiptJson(receipts, turns[t].receipt)]

\* The terminal event of a turn.  An extraction failure is reported either
\* as a final event describing it or as an error event.
TerminalEvents(t) ==
  IF turns[t].last \in {"transient", "structural"} THEN {"final", "error"} ELSE {"final"}

\* Step 5: append the assistant Message, send the terminal event, finish.
CompleteTurn(t, ev) ==
  /\ turns[t].phase = "streaming"
  /\ ev \in TerminalEvents(t)
  /\ CanEmit(t)
  /\ conversations' = [conversations EXCEPT ![turns[t].conv] = Append(@, AssistantMessage(t))]
  /\ turns' = [turns EXCEPT ![t].phase = "done"]
  /\ Emit(t, ev, IF ev = "final" THEN FinalPayload(t)
                 ELSE [message |-> "AnalyzerUnavailable"])
  /\ UNCHANGED <<receipts, extractionRuns, nTurns, nCorrections, panelVars>>

\* ---------------------------------------------------- manual correction
CorrectionError(rs, id, payload) ==
  IF id \notin DOMAIN rs THEN "NotFound"
  ELSE IF payload.status \notin Statuses \cup {"null", "absent"} THEN "ValidationError"
  ELSE "none"

\* PATCH /api/v1/receipts/{id}: the store after the correction.
Corrected(rs, id, payload) ==
  IF CorrectionError(rs, id, payload) # "none" THEN rs
  ELSE [rs EXCEPT ![id].key = IF payload.key = 0 THEN @ ELSE payload.key,
                  ![id].fields = "manual",
                  ![id].status = "manually_corrected"]

\* ------------------------------------------------------ other API caller
ApiSubmit(t, conv, text, att, max) ==
  /\ Receive(t, conv, text, att, max)
  /\ UNCHANGED <<conversations, receipts, extractionRuns, wire, nCorrections, panelVars>>

\* The caller has read the whole response.
ApiDone(t) ==
  /\ turns[t].phase \in {"done", "rejected"}
  /\ turns' = [turns EXCEPT ![t] = IdleTurn]
  /\ emitted' = [emitted EXCEPT ![t] = <<>>]
  /\ UNCHANGED <<conversations, receipts, extractionRuns, wire, nTurns, nCorrections, panelVars>>

ApiCorrect(id, payload) ==
  /\ nCorrections < MaxCorrections
  /\ nCorrections' = nCorrections + 1
  /\ receipts' = Corrected(receipts, id, payload)
  /\ UNCHANGED <<conversations, extractionRuns, turns, emitted, wire, nTurns, panelVars>>

\* ------------------------------------------------------------ ChatPanel
\* Strings are sequences of characters or of longer fragments.
NoTrim(s) == s

RECURSIVE TrimStart(_)
TrimStart(s) == IF s # <<>> /\ Head(s) = " " THEN TrimStart(Tail(s)) ELSE s

RECURSIVE TrimEnd(_)
TrimEnd(s) ==
  IF s # <<>> /\ s[Len(s)] = " " THEN TrimEnd(SubSeq(s, 1, Len(s) - 1)) ELSE s

Trim(s) == TrimEnd(TrimStart(s))

parseJson(value) == IF value.json THEN value.val ELSE Null

\* Lines of one block: the last "event:" line names the event, the "data:"
\* lines are joined; a block without data is dropped.
RECURSIVE ScanLines(_, _)
ScanLines(acc, lines) ==
  IF lines = <<>> THEN acc
  ELSE LET line == Head(lines)
           next == IF line.k = "event" THEN [acc EXCEPT !.event = line.v]
                   ELSE IF line.k = "data" THEN [acc EXCEPT !.dataLines = Append(@, line.v)]
                   ELSE acc
       IN ScanLines(next, Tail(lines))

parseSseBlock(block) ==
  LET r == ScanLines([event |-> "message", dataLines |-> <<>>], block)
  IN IF r.dataLines = <<>> THEN Null
     ELSE [event |-> r.event,
           data |-> IF Len(r.dataLines) = 1 THEN r.dataLines[1]
                    ELSE [json |-> FALSE, val |-> r.dataLines]]

\* buffer.split("\n\n"): the pieces between blank lines, the last one being
\* what follows the last blank line.
\* A split on every newline instead of on blank lines.
SplitOnNewline(buf) ==
  LET nls == {i \in 1..Len(buf) : buf[i].k = "nl"}
      cuts == <<0>> \o [j \in 1..Cardinality(nls) |->
                 CHOOSE i \in nls : Cardinality({x \in nls : x < i}) = j - 1]
                \o <<Len(buf) + 1>>
  IN [j \in 1..(Len(cuts) - 1) |-> SubSeq(buf, cuts[j] + 1, cuts[j + 1] - 1)]

RECURSIVE SplitBlocks(_)
SplitBlocks(buf) ==
  LET seps == {i \in 1..(Len(buf) - 1) : buf[i].k = "nl" /\ buf[i + 1].k = "nl"}
  IN IF seps = {} THEN <<buf>>
     ELSE LET i == Min(seps)
          IN <<SubSeq(buf, 1, i - 1)>> \o SplitBlocks(SubSeq(buf, i + 2, Len(buf)))

Front(s) == SubSeq(s, 1, Len(s) - 1)

NoRest(s) == <<>>

Last(s) == s[Len(s)]

prependMessage(msgs, message) == <<message>> \o msgs

appendMessage(msgs, message) == Append(msgs, message)

patchMessage(msgs, id, patch) ==
  [i \in DOMAIN msgs |->
     IF msgs[i].id = id
     THEN [f \in DOMAIN msgs[i] |-> IF f \in DOMAIN patch THEN patch[f] ELSE msgs[i][f]]
     ELSE msgs[i]]

prependMessageText(msgs, id, textToAppend) ==
  [i \in DOMAIN msgs |->
     IF msgs[i].id = id THEN [msgs[i] EXCEPT !.text = <<textToAppend>> \o @] ELSE msgs[i]]

appendMessageText(msgs, id, textToAppend) ==
  [i \in DOMAIN msgs |->
     IF msgs[i].id = id THEN [msgs[i] EXCEPT !.text = @ \o <<textToAppend>>] ELSE msgs[i]]

Procesando == <<"Procesando...">>

\* The body of the for loop of sendMessageStreaming for one block; st holds
\* what the loop reads and writes, st.thrown the message of a thrown Error.
HandleBlock(st, id, block) ==
  LET parsed == parseSseBlock(block)
  IN IF parsed = Null THEN st
     ELSE LET seen == [st EXCEPT !.consumed = Append(@, parsed.event)]
          IN CASE parsed.event = "start" ->
                    [seen EXCEPT !.messages = patchMessage(@, id, [text |-> Procesando])]
               [] parsed.event = "delta" ->
                    LET delta == parseJson(parsed.data)
                        piece == IF delta = Null \/ "content" \notin DOMAIN delta
                                 THEN "" ELSE delta.content
                    IN IF piece = "" THEN seen
                       ELSE [seen EXCEPT
                              !.hasDelta = TRUE,
                              !.messages = appendMessageText(
                                 IF st.hasDelta THEN @ ELSE patchMessage(@, id, [text |-> <<>>]),
                                 id, piece)]
               [] parsed.event = "error" ->
                    LET streamError == parseJson(parsed.data)
                    IN [seen EXCEPT !.thrown =
                          IF streamError = Null \/ "message" \notin DOMAIN streamError
                          THEN "Error en streaming" ELSE streamError.message]
               [] parsed.event = "final" ->
                    LET payload == parseJson(parsed.data)
                    IN IF payload = Null
                       THEN [seen EXCEPT !.thrown = "No se pudo leer respuesta final del stream"]
                       ELSE [seen EXCEPT
                              !.gotFinal = TRUE,
                              !.lastFinal = payload,
                              !.conversationId = payload.conversation_id,
                              !.messages = patchMessage(@, id,
                                 [text |-> payload.assistant_message, data |-> payload.data])]
               [] OTHER -> seen

\* A loop that a thrown Error does not leave.
RECURSIVE HandleEveryBlock(_, _, _)
HandleEveryBlock(st, id, blocks) ==
  IF blocks = <<>> THEN st
  ELSE HandleEveryBlock(
         [HandleBlock(st, id, Head(blocks)) EXCEPT
            !.thrown = IF st.thrown # "none" THEN st.thrown ELSE @],
         id, Tail(blocks))

RECURSIVE HandleBlocks(_, _, _)
HandleBlocks(st, id, blocks) ==
  IF blocks = <<>> \/ st.thrown # "none" THEN st
  ELSE HandleBlocks(HandleBlock(st, id, Head(blocks)), id, Tail(blocks))

StillLoading == TRUE

\* finally of sendMessage: setLoading(false).
AfterFinally == FALSE

\* catch of sendMessage.
CatchError(msgs, id, message) ==
  patchMessage(msgs, id, [text |-> <<"Error: ", message>>, data |-> Undefined])

\* The text shown for the user's turn.
UserText(text, f) ==
  IF f # NoFile
  THEN (IF text # <<>> THEN text ELSE <<"Archivo enviado">>) \o <<" (", f.name, ")">>
  ELSE text

Inputs == {<<>>, <<" ">>, <<" ", "h", " ">>}

setInput(value) ==
  /\ input' = value
  /\ UNCHANGED <<conversationId, file, messages, loading, streamVars, editorVars, backendVars>>

setFile(selected) ==
  /\ file' = selected
  /\ UNCHANGED <<conversationId, input, messages, loading, streamVars, editorVars, backendVars>>

NoConversationId == IF conversationId = 0 THEN conversationId ELSE 0

\* formData's conversation_id: appended only when conversationId is set (0
\* stands for a form without the field).
FormConversationId == IF conversationId # 0 THEN conversationId ELSE 0

NeverInFlight == FALSE

\* The guard of sendMessage: a turn is in flight.
InFlight == loading

\* The form is submitted.  net tells whether the request will reach the
\* server; the part of sendMessage before its first await runs at once.
sendMessage(net, max) ==
  IF InFlight THEN UNCHANGED vars
  ELSE LET text == Trim(input)
       IN IF text = <<>> /\ file = NoFile THEN UNCHANGED vars
          ELSE /\ messages' = appendMessage(
                    appendMessage(messages,
                      [id |-> nextId, role |-> "user", text |-> UserText(text, file),
                       data |-> Undefined]),
                    [id |-> nextId + 1, role |-> "assistant", text |-> Procesando,
                     data |-> Undefined])
               /\ assistantId' = nextId + 1
               /\ nextId' = nextId + 2
               /\ input' = <<>>
               /\ file' = NoFile
               /\ loading' = TRUE
               /\ consumed' = <<>>
               /\ IF net
                  THEN /\ Receive("p", FormConversationId, text # <<>>, file, max)
                       /\ pc' = "fetch"
                  ELSE /\ nTurns < max
                       /\ nTurns' = nTurns + 1
                       /\ pc' = "neterr"
                       /\ emitted' = [emitted EXCEPT !["p"] = <<>>]
                       /\ UNCHANGED turns
               /\ UNCHANGED <<conversationId, buffer, hasDelta, gotFinal, lastFinal, editorVars,
                              conversations, receipts, extractionRuns, wire, nCorrections>>

\* fetch rejects: the request never got an answer.
FetchRejected ==
  /\ pc = "neterr"
  /\ messages' = CatchError(messages, assistantId, "Failed to fetch")
  /\ loading' = AfterFinally
  /\ pc' = "idle"
  /\ UNCHANGED <<conversationId, input, file, assistantId, buffer, hasDelta, gotFinal,
                 consumed, lastFinal, nextId, editorVars, backendVars>>

\* parseApiError: the message of a structured error body.
parseApiError(raw) ==
  LET parsed == parseJson(raw)
  IN IF parsed # Null /\ "error" \in DOMAIN parsed THEN parsed.error.message ELSE "raw"

\* fetch resolves with a refusal: response.ok is false.
ResponseNotOk ==
  /\ pc = "fetch"
  /\ turns["p"].phase = "rejected"
  /\ messages' = CatchError(messages, assistantId,
       parseApiError(JsonStringify([error |-> [message |-> turns["p"].error]])))
  /\ loading' = AfterFinally
  /\ pc' = "idle"
  /\ turns' = [turns EXCEPT !["p"] = IdleTurn]
  /\ UNCHANGED <<conversationId, input, file, assistantId, buffer, hasDelta, gotFinal,
                 consumed, lastFinal, nextId, editorVars, conversations, receipts,
                 extractionRuns,
                 emitted, wire, nTurns, nCorrections>>

\* fetch resolves with the event stream: the reader loop starts.
ResponseStream ==
  /\ pc = "fetch"
  /\ turns["p"].phase \notin {"idle", "queued", "rejected", "plain"}
  /\ pc' = "read"
  /\ buffer' = <<>>
  /\ hasDelta' = FALSE
  /\ gotFinal' = FALSE
  /\ UNCHANGED <<chatVars, assistantId, consumed, lastFinal, nextId, editorVars, backendVars>>

\* reader.read() returns the next n items of the response.
ReadChunk(n) ==
  /\ pc = "read"
  /\ n \in 1..Len(wire)
  /\ \E blocks \in {SplitBlocks(buffer \o SubSeq(wire, 1, n))} :
     \E st \in {HandleBlocks(
                 [messages |-> messages, conversationId |-> conversationId,
                  hasDelta |-> hasDelta, gotFinal |-> gotFinal, thrown |-> "none",
                  consumed |-> consumed, lastFinal |-> lastFinal],
                 assistantId, Front(blocks))} :
        /\ conversationId' = st.conversationId
        /\ consumed' = st.consumed
        /\ lastFinal' = st.lastFinal
        /\ hasDelta' = st.hasDelta
        /\ gotFinal' = st.gotFinal
        /\ IF st.thrown = "none"
           THEN /\ messages' = st.messages
                /\ buffer' = Last(blocks)
                /\ wire' = SubSeq(wire, n + 1, Len(wire))
                /\ UNCHANGED <<loading, pc, turns>>
           ELSE /\ messages' = CatchError(st.messages, assistantId, st.thrown)
                /\ loading' = AfterFinally
                /\ pc' = "idle"
                /\ buffer' = <<>>
                /\ wire' = <<>>
                /\ turns' = [turns EXCEPT !["p"] = IdleTurn]
  /\ UNCHANGED <<input, file, assistantId, nextId, editorVars, conversations, receipts,
                 extractionRuns, emitted, nTurns, nCorrections>>

\* reader.read() reports the end of the response.
ReadDone ==
  /\ pc = "read"
  /\ wire = <<>>
  /\ turns["p"].phase = "done"
  /\ messages' = IF gotFinal THEN messages
                 ELSE CatchError(messages, assistantId, "El stream finalizo sin evento final")
  /\ loading' = AfterFinally
  /\ pc' = "idle"
  /\ turns' = [turns EXCEPT !["p"] = IdleTurn]
  /\ UNCHANGED <<conversationId, input, file, assistantId, buffer, hasDelta, gotFinal,
                 consumed, lastFinal, nextId, editorVars, conversations, receipts,
                 extractionRuns,
                 emitted, wire, nTurns, nCorrections>>

\* ---------------------------------------------- responses of any server
\* What the response to the panel's request may hold, whoever answers it:
\* well-formed events, events whose data is empty, lacks its field or is not
\* JSON, and keep-alive comments.
EventKinds ==
  {"start", "deltaA", "deltaB", "deltaEmpty", "deltaBare", "deltaGarbled",
   "final1", "final2", "finalGarbled", "error", "errorBare", "ping"}

Garbled == [json |-> FALSE, val |-> "{"]

FinalOf(c) ==
  [conversation_id |-> c, assistant_message |-> <<"reply ", IF c = 1 THEN "one" ELSE "two">>,
   receipt_id |-> 0, data |-> [summary |-> c]]

KindFrame(kind) ==
  CASE kind = "start" -> Frame("start", [conversation_id |-> 1])
    [] kind = "deltaA" -> Frame("delta", [content |-> "a"])
    [] kind = "deltaB" -> Frame("delta", [content |-> "b"])
    [] kind = "deltaEmpty" -> Frame("delta", [content |-> ""])
    [] kind = "deltaBare" -> Frame("delta", [role |-> "assistant"])
    [] kind = "deltaGarbled" -> <<[k |-> "event", v |-> "delta"], NL, [k |-> "data", v |-> Garbled], NL, NL>>
    [] kind = "final1" -> Frame("final", FinalOf(1))
    [] kind = "final2" -> Frame("final", FinalOf(2))
    [] kind = "finalGarbled" -> <<[k |-> "event", v |-> "final"], NL, [k |-> "data", v |-> Garbled], NL, NL>>
    [] kind = "error" -> Frame("error", [message |-> "boom"])
    [] kind = "errorBare" -> Frame("error", [code |-> 500])
    [] OTHER -> <<[k |-> "comment", v |-> "ping"], NL, NL>>

RECURSIVE Frames(_)
Frames(events) ==
  IF events = <<>> THEN <<>> ELSE KindFrame(Head(events)) \o Frames(Tail(events))

\* An event that the response breaks off in: no blank line follows it.
Unterminated ==
  <<[k |-> "event", v |-> "final"], NL, [k |-> "data", v |-> JsonStringify(FinalOf(2))]>>

\* The text of a response: its events and, with tail, the broken-off one.
Body(events, tail) == Frames(events) \o (IF tail THEN Unterminated ELSE <<>>)

\* All sequences over a set of kinds, up to a length.
Streams(kinds, n) == UNION {[1..m -> kinds] : m \in 0..n}

\* fetch is answered with status 200 and an event stream of this content,
\* which the server then closes.
ServeStream(events, tail) ==
  /\ pc = "fetch"
  /\ turns["p"].phase = "queued"
  /\ turns' = [turns EXCEPT !["p"].phase = "done", !["p"].sent = events,
                            !["p"].tail = tail]
  /\ wire' = Body(events, tail)
  /\ UNCHANGED <<conversations, receipts, extractionRuns, emitted, nTurns, nCorrections,
                 panelVars>>

\* fetch is answered with a status that is not 2xx.
ServeRefusal(error) ==
  /\ pc = "fetch"
  /\ turns["p"].phase = "queued"
  /\ turns' = [turns EXCEPT !["p"].phase = "rejected", !["p"].error = error]
  /\ UNCHANGED <<conversations, receipts, extractionRuns, emitted, wire, nTurns,
                 nCorrections, panelVars>>

\* fetch is answered with status 200 but without a body ("NoBody") or with a
\* content type other than text/event-stream ("NoSse").
ServePlain(what) ==
  /\ pc = "fetch"
  /\ turns["p"].phase = "queued"
  /\ turns' = [turns EXCEPT !["p"].phase = "plain", !["p"].error = what]
  /\ UNCHANGED <<conversations, receipts, extractionRuns, emitted, wire, nTurns,
                 nCorrections, panelVars>>

\* sendMessageStreaming refuses a response it cannot stream from.
ResponseNotStream ==
  /\ pc = "fetch"
  /\ turns["p"].phase = "plain"
  /\ messages' = CatchError(messages, assistantId,
       IF turns["p"].error = "NoBody" THEN "El servidor no devolvio stream"
       ELSE "Respuesta inesperada del servidor (sin SSE)")
  /\ loading' = AfterFinally
  /\ pc' = "idle"
  /\ turns' = [turns EXCEPT !["p"] = IdleTurn]
  /\ UNCHANGED <<conversationId, input, file, assistantId, buffer, hasDelta, gotFinal,
                 consumed, lastFinal, nextId, editorVars, conversations, receipts,
                 extractionRuns, emitted, wire, nTurns, nCorrections>>

\* ---------------------------------------------- manual-correction editor
extractReceiptId(data) == IF "id" \in DOMAIN data THEN data.id ELSE 0

toEditableReceipt(data) ==
  [id |-> IF "id" \in DOMAIN data THEN data.id ELSE 0,
   status |-> IF "status" \in DOMAIN data THEN data.status ELSE "processed",
   key |-> IF "key" \in DOMAIN data THEN data.key ELSE 0]

\* A request body that leaves an empty status out, as it does the amounts.
PayloadWithoutEmpty(er) ==
  [status |-> IF er.status = "" THEN "absent" ELSE er.status, key |-> er.key]

\* The body of the PATCH request: every text field is sent, an empty one as null.
CorrectionPayload(er) ==
  [status |-> IF er.status = "" THEN "null" ELSE er.status, key |-> er.key]

IdText(i) == IF i = 0 THEN "" ELSE <<"1", "2", "3", "4", "5", "6", "7", "8">>[i]

setEditReceiptId(value) ==
  /\ editReceiptId' = value
  /\ UNCHANGED <<editableReceipt, editorLoading, editorMessage, editorReqs, lastIssued,
                 chatVars, streamVars, backendVars>>

\* An input of the editor changes one field of the loaded receipt.
setEditableReceipt(field, value) ==
  /\ editableReceipt # Null
  /\ editableReceipt' = [editableReceipt EXCEPT ![field] = value]
  /\ UNCHANGED <<editReceiptId, editorLoading, editorMessage, editorReqs, lastIssued,
                 chatVars, streamVars, backendVars>>

\* loadReceiptForEdit up to its fetch; receiptId = 0 stands for no argument.
loadReceiptForEdit(receiptId, max) ==
  LET targetId == IF receiptId # 0 THEN receiptId ELSE editReceiptId
  IN IF targetId = 0
     THEN /\ editorMessage' = "Ingresa un receipt_id para cargar."
          /\ UNCHANGED <<editReceiptId, editableReceipt, editorLoading, editorReqs,
                         lastIssued>>
     ELSE /\ Len(editorReqs) < max
          /\ editorLoading' = TRUE
          /\ editorMessage' = "Cargando comprobante..."
          /\ editorReqs' = Append(editorReqs,
               [kind |-> "load", id |-> targetId, payload |-> Null])
          /\ lastIssued' = targetId
          /\ UNCHANGED <<editReceiptId, editableReceipt>>

\* The "Cargar" button, disabled while editorLoading.
ClickLoad(max) ==
  /\ ~editorLoading
  /\ loadReceiptForEdit(0, max)
  /\ UNCHANGED <<chatVars, streamVars, backendVars>>

\* The "Editar este comprobante" button of message i.
ClickEditMessage(i, max) ==
  /\ i \in DOMAIN messages
  /\ extractReceiptId(messages[i].data) # 0
  /\ Len(editorReqs) < max
  /\ editorLoading' = TRUE
  /\ editorMessage' = "Cargando comprobante..."
  /\ editorReqs' = Append(editorReqs,
       [kind |-> "load", id |-> extractReceiptId(messages[i].data), payload |-> Null])
  /\ lastIssued' = extractReceiptId(messages[i].data)
  /\ editReceiptId' = extractReceiptId(messages[i].data)
  /\ UNCHANGED <<editableReceipt, chatVars, streamVars, backendVars>>

\* The GET answers: the rest of loadReceiptForEdit.
LoadSettled(k) ==
  /\ k \in DOMAIN editorReqs
  /\ editorReqs[k].kind = "load"
  /\ LET id == editorReqs[k].id
     IN IF id \in DOMAIN receipts
        THEN LET mapped == toEditableReceipt(ReceiptJson(receipts, id))
             IN /\ editReceiptId' = mapped.id
                /\ editableReceipt' = mapped
                /\ editorMessage' = "Comprobante cargado. Puedes editar y guardar."
        ELSE /\ editorMessage' = "Error al cargar"
             /\ UNCHANGED <<editReceiptId, editableReceipt>>
  /\ editorLoading' = FALSE
  /\ editorReqs' = SubSeq(editorReqs, 1, k - 1) \o SubSeq(editorReqs, k + 1, Len(editorReqs))
  /\ UNCHANGED <<lastIssued, chatVars, streamVars, backendVars>>

\* saveManualCorrection up to its fetch ("Guardar correccion", shown when a
\* receipt is loaded, disabled while editorLoading).
saveManualCorrection(max) ==
  /\ ~editorLoading
  /\ editableReceipt # Null
  /\ Len(editorReqs) < max
  /\ nCorrections < MaxCorrections
  /\ nCorrections' = nCorrections + 1
  /\ editorLoading' = TRUE
  /\ editorMessage' = "Guardando cambios..."
  /\ editorReqs' = Append(editorReqs,
       [kind |-> "save", id |-> editableReceipt.id,
        payload |-> CorrectionPayload(editableReceipt)])
  /\ lastIssued' = editableReceipt.id
  /\ UNCHANGED <<editReceiptId, editableReceipt, chatVars, streamVars, conversations,
                 receipts, extractionRuns, turns, emitted, wire, nTurns>>

\* The PATCH is applied and answers: the rest of saveManualCorrection.
SaveSettled(k) ==
  /\ k \in DOMAIN editorReqs
  /\ editorReqs[k].kind = "save"
  /\ LET id == editorReqs[k].id
         payload == editorReqs[k].payload
         updated == ReceiptJson(Corrected(receipts, id, payload), id)
     IN /\ receipts' = Corrected(receipts, id, payload)
        /\ IF CorrectionError(receipts, id, payload) = "none"
           THEN /\ editableReceipt' = toEditableReceipt(updated)
                /\ editorMessage' = "Correccion manual guardada correctamente."
                /\ messages' = appendMessage(messages,
                     [id |-> nextId, role |-> "assistant",
                      text |-> <<"Correccion manual aplicada al comprobante ",
                                 IdText(toEditableReceipt(updated).id), ".">>,
                      data |-> updated])
                /\ nextId' = nextId + 1
           ELSE /\ editorMessage' = "Error al guardar"
                /\ UNCHANGED <<editableReceipt, messages, nextId>>
  /\ editorLoading' = FALSE
  /\ editorReqs' = SubSeq(editorReqs, 1, k - 1) \o SubSeq(editorReqs, k + 1, Len(editorReqs))
  /\ UNCHANGED <<editReceiptId, conversationId, input, file, loading, pc, assistantId,
                 buffer, hasDelta, gotFinal, consumed, lastFinal, lastIssued,
                 conversations, extractionRuns,
                 turns, emitted, wire, nTurns, nCorrections>>

\* --------------------------------------------------------- specification
Init ==
  /\ conversations = <<>>
  /\ receipts = <<>>
  /\ extractionRuns = <<>>
  /\ turns = [t \in Slots |-> IdleTurn]
  /\ emitted = [t \in Slots |-> <<>>]
  /\ wire = <<>>
  /\ nTurns = 0
  /\ nCorrections = 0
  /\ conversationId = 0
  /\ input = <<>>
  /\ file = NoFile
  /\ messages = <<>>
  /\ loading = FALSE
  /\ editReceiptId = 0
  /\ editableReceipt = Null
  /\ editorLoading = FALSE
  /\ editorMessage = ""
  /\ pc = "idle"
  /\ assistantId = 0
  /\ buffer = <<>>
  /\ hasDelta = FALSE
  /\ gotFinal = FALSE
  /\ consumed = <<>>
  /\ lastFinal = Null
  /\ nextId = 1
  /\ editorReqs = <<>>
  /\ lastIssued = 0

\* The pipeline's own steps for the turn on slot t.
Pipeline(t) ==
  \/ BeginTurn(t)
  \/ Classify(t)
  \/ \E o \in AttemptOutcomes : AnalyzerAttempt(t, o)
  \/ PersistReceipt(t)
  \/ PersistFailure(t)
  \/ \E piece \in DeltaPieces : EmitDelta(t, piece)
  \/ \E ev \in {"final", "error"} : CompleteTurn(t, ev)

\* The store under one API caller: uploads, queries and manual corrections.
StoreFiles == {f \in Files : f.name \in {"f1", "f2"}}

NextStore ==
  \/ Pipeline("a")
  \/ \E c \in 0..Len(conversations), att \in StoreFiles \cup {NoFile} :
       ApiSubmit("a", c, att = NoFile, att, MaxStoreTurns)
  \/ ApiDone("a")
  \/ \E id \in DOMAIN receipts, s \in {"absent", "bogus"}, k \in {0, 2} :
       ApiCorrect(id, [status |-> s, key |-> k])

SpecStore == Init /\ [][NextStore]_vars

NextRace ==
  \/ \E t \in {"a", "b"} : Pipeline(t)
  \/ \E t \in {"a", "b"}, c \in 0..Len(conversations), att \in StoreFiles \cup {NoFile} :
       ApiSubmit(t, c, att = NoFile, att, MaxTurns)
  \/ \E t \in {"a", "b"} : ApiDone(t)

SpecRace == Init /\ [][NextRace]_vars

PanelFiles == {f \in Files : f.name \in {"f1", "exe"}}

\* The ChatPanel alone with the pipeline.
Next ==
  \/ RejectTurn("p")
  \/ Pipeline("p")
  \/ \E value \in Inputs : ~loading /\ setInput(value)
  \/ \E selected \in PanelFiles \cup {NoFile} : ~loading /\ setFile(selected)
  \/ \E net \in BOOLEAN : sendMessage(net, MaxTurns)
  \/ FetchRejected
  \/ ResponseNotOk
  \/ ResponseStream
  \/ \E n \in 1..MaxWire : ReadChunk(n)
  \/ ReadDone

Spec == Init /\ [][Next]_vars

\* The editor of the ChatPanel over a store that an API caller fills.
NextEditor ==
  \/ Pipeline("a")
  \/ \E c \in 0..Len(conversations), att \in {f \in Files : f.name = "f1"} :
       ApiSubmit("a", c, FALSE, att, MaxEditorTurns)
  \/ ApiDone("a")
  \/ \E value \in 0..(Len(receipts) + 1) : setEditReceiptId(value)
  \/ \E value \in {"", "bogus"} : setEditableReceipt("status", value)
  \/ ClickLoad(MaxEditorReqs)
  \/ \E i \in 1..MaxCorrections : ClickEditMessage(i, MaxEditorReqs)
  \/ \E k \in 1..MaxEditorReqs : LoadSettled(k)
  \/ saveManualCorrection(MaxEditorReqs)
  \/ \E k \in 1..MaxEditorReqs : SaveSettled(k)

SpecEditor == Init /\ [][NextEditor]_vars

\* The ChatPanel and another API caller exchanging text-only turns.
NextTabs ==
  \/ RejectTurn("a")
  \/ \E t \in {"p", "a"} : BeginTurn(t)
  \/ \E t \in {"p", "a"} : Classify(t)
  \/ \E t \in {"p", "a"}, piece \in DeltaPieces : EmitDelta(t, piece)
  \/ \E t \in {"p", "a"} : CompleteTurn(t, "final")
  \/ \E c \in 0..Len(conversations), text \in BOOLEAN : ApiSubmit("a", c, text, NoFile, MaxStoreTurns)
  \/ ApiDone("a")
  \/ \E value \in Inputs : setInput(value)
  \/ \E net \in BOOLEAN : sendMessage(net, MaxStoreTurns)
  \/ FetchRejected
  \/ ResponseStream
  \/ \E n \in 1..MaxWire : ReadChunk(n)
  \/ ReadDone

SpecTabs == Init /\ [][NextTabs]_vars

\* The ChatPanel reading the response of any server to one request.
NextStream ==
  \/ \E value \in Inputs : ~loading /\ setInput(value)
  \/ sendMessage(TRUE, MaxStreamTurns)
  \/ pc = "fetch" /\ \E events \in Streams(EventKinds, MaxEvents), tail \in BOOLEAN :
                       ServeStream(events, tail)
  \/ ResponseStream
  \/ \E n \in 1..Len(wire) : ReadChunk(n)
  \/ ReadDone

SpecStream == Init /\ [][NextStream]_vars

\* The ChatPanel over several turns with any server: short responses,
\* refusals, responses that are no event stream, requests that fail.
ConvKinds == {"deltaA", "final1", "final2", "finalGarbled", "error"}

NextConv ==
  \/ \E value \in Inputs : ~loading /\ setInput(value)
  \/ \E net \in BOOLEAN : sendMessage(net, MaxConvTurns)
  \/ FetchRejected
  \/ pc = "fetch" /\ \E events \in Streams(ConvKinds, MaxConvEvents) :
                       ServeStream(events, FALSE)
  \/ ServeRefusal("Unavailable")
  \/ \E what \in {"NoBody", "NoSse"} : ServePlain(what)
  \/ ResponseNotOk
  \/ ResponseNotStream
  \/ ResponseStream
  \/ \E n \in 1..Len(wire) : ReadChunk(n)
  \/ ReadDone

SpecConv == Init /\ [][NextConv]_vars

\* The ChatPanel and any server, with every pending step of the call taken
\* in the end: fetch settles, the response is read while there is any of it,
\* and its end is reported.
LiveKinds == {"deltaA", "final1", "error"}

ServeLive ==
  /\ pc = "fetch"
  /\ \E events \in Streams(LiveKinds, MaxConvEvents) : ServeStream(events, FALSE)

ReadSome == \E n \in 1..Len(wire) : ReadChunk(n)

NextLive ==
  \/ ~loading /\ setInput(<<"h">>)
  \/ \E net \in BOOLEAN : sendMessage(net, MaxLiveTurns)
  \/ FetchRejected
  \/ ServeLive
  \/ ServeRefusal("Unavailable")
  \/ \E what \in {"NoBody", "NoSse"} : ServePlain(what)
  \/ ResponseNotOk
  \/ ResponseNotStream
  \/ ResponseStream
  \/ ReadSome
  \/ ReadDone

\* The next step of the pending call, whichever it is.
Settle ==
  \/ FetchRejected
  \/ ServeLive
  \/ ResponseNotOk
  \/ ResponseNotStream
  \/ ResponseStream
  \/ ReadSome
  \/ ReadDone

SpecLive == Init /\ [][NextLive]_vars /\ WF_vars(Settle)

\* ================================================================ claims
IsPrefix(a, b) == Len(a) <= Len(b) /\ \A i \in 1..Len(a) : a[i] = b[i]

Terminal == {"final", "error"}

\* start, then deltas, with a terminal event nowhere but in the last place.
ShapedSoFar(es) ==
  /\ es # <<>> => es[1] = "start"
  /\ \A i \in 2..Len(es) : es[i] \in {"delta"} \cup Terminal
  /\ \A i \in 1..(Len(es) - 1) : es[i] \notin Terminal

ShapedWhole(es) == ShapedSoFar(es) /\ Len(es) >= 2 /\ es[Len(es)] \in Terminal

\* C1: the events of a turn are start, then zero or more delta, then one
\* terminal event (final or error) and nothing after it, both as the Stream
\* Emitter sends them and as the ChatPanel handles them: what the panel has
\* handled is always a prefix of what was sent, and all of it once its call
\* has returned.
C1_StreamShape ==
  /\ \A t \in Slots : ShapedSoFar(emitted[t])
  /\ \A t \in Slots : turns[t].phase = "done" => ShapedWhole(emitted[t])
  /\ IsPrefix(consumed, emitted["p"])
  /\ pc = "idle" /\ emitted["p"] # <<>> => consumed = emitted["p"] /\ ShapedWhole(consumed)

C1_Witness ==
  /\ pc = "idle"
  /\ nTurns = 2
  /\ consumed = <<"start", "delta", "error">>
  /\ emitted["p"] = consumed

\* The receipts that an extraction of a turn produced, by content.
Extracted(rs, fp) == {i \in DOMAIN rs : rs[i].fp = fp /\ rs[i].created # "error"}

Stored(rs, rs2) == Len(rs2) = Len(rs) + 1

C3_OneProcessedPerFingerprint ==
  /\ \A i \in DOMAIN receipts, j \in DOMAIN receipts :
       (/\ receipts[i].fp = receipts[j].fp
        /\ receipts[i].status \in ProcessedStatuses
        /\ receipts[j].status \in ProcessedStatuses) => i = j
  /\ \A i \in DOMAIN receipts, j \in DOMAIN receipts :
       (/\ receipts[i].fp = receipts[j].fp
        /\ receipts[i].status \in ProcessedStatuses
        /\ receipts[j].created # "error"
        /\ i < j) => receipts[j].status = "duplicate" /\ receipts[j].dup_of = i
  /\ \A t \in Slots :
       (turns[t].phase = "done" /\ turns[t].last \in {"success", "partial"})
       => /\ emitted[t][Len(emitted[t])] = "final"
          /\ turns[t].error = "none"

\* Two turns of different conversations carried the same content at the same
\* time: the one that was received first stored its receipt second, as the
\* duplicate of the other's.
C3_Witness ==
  /\ turns["a"].phase = "done" /\ turns["b"].phase = "done"
  /\ turns["a"].conv # turns["b"].conv
  /\ Len(receipts) = 2
  /\ receipts[1].fp = receipts[2].fp
  /\ receipts[1].tid = 2 /\ receipts[2].tid = 1
  /\ receipts[1].status \in ProcessedStatuses
  /\ receipts[2].status = "duplicate"

RunsOf(tid) == {k \in DOMAIN extractionRuns : extractionRuns[k].tid = tid}

ReceiptsOf(tid) == {i \in DOMAIN receipts : receipts[i].tid = tid}

\* The turn on slot t has spent its retry budget on transient failures.
Exhausted(t) == turns[t].attempts = MaxAttempts /\ turns[t].last = "transient"

\* C4: a turn whose analyzer calls exhausted the retry budget records exactly
\* one ExtractionRun, with outcome failure, and exactly one Receipt, created
\* with status error and without any extracted field; the turn can always go
\* on to its terminal event and, once done, its stream ends with that event.
C4_ExhaustedRetries ==
  /\ \A t \in Slots :
       (Exhausted(t) /\ turns[t].phase \in {"streaming", "done"})
       => /\ Cardinality(RunsOf(turns[t].tid)) = 1
          /\ Cardinality(ReceiptsOf(turns[t].tid)) = 1
          /\ ReceiptsOf(turns[t].tid) = {turns[t].receipt}
          /\ \A k \in RunsOf(turns[t].tid) :
               /\ extractionRuns[k].outcome = "failure"
               /\ extractionRuns[k].attempts = MaxAttempts
               /\ extractionRuns[k].receipt = turns[t].receipt
          /\ receipts[turns[t].receipt].created = "error"
          /\ receipts[turns[t].receipt].status = "error"
               => /\ receipts[turns[t].receipt].fields = "none"
                  /\ receipts[turns[t].receipt].key = 0
  /\ \A t \in Slots :
       (Exhausted(t) /\ turns[t].phase = "analyzing") => FALSE
  /\ \A t \in Slots :
       (Exhausted(t) /\ turns[t].phase = "failed") => ENABLED PersistFailure(t)
  /\ \A t \in Slots :
       (Exhausted(t) /\ turns[t].phase = "streaming")
       => ENABLED CompleteTurn(t, "final")
  /\ \A t \in Slots :
       (Exhausted(t) /\ turns[t].phase = "done")
       => emitted[t][Len(emitted[t])] \in Terminal
  /\ \A k \in DOMAIN extractionRuns :
       extractionRuns[k].outcome = "failure"
       => receipts[extractionRuns[k].receipt].created = "error"

\* A turn that spent its budget has completed with its failure on record.
C4_Witness ==
  /\ Exhausted("a")
  /\ turns["a"].phase = "done"
  /\ receipts[turns["a"].receipt].status = "error"
  /\ emitted["a"][Len(emitted["a"])] = "final"

\* C5: a turn makes at most MaxAttempts analyzer attempts, in one sequence:
\* an attempt after the first is made only when the previous one ended with
\* a transient outcome, a structural error ends the sequence at once, and
\* once the sequence has ended (with a result or with AnalyzerUnavailable)
\* the turn starts no further attempt and records one run.
C5_AttemptSequence ==
  /\ [](\A t \in Slots :
          /\ turns[t].attempts <= MaxAttempts
          /\ turns[t].last = "structural" => turns[t].phase # "analyzing"
          /\ turns[t].phase = "analyzing"
               => turns[t].last \in {"none", "transient"}
          /\ Cardinality(RunsOf(turns[t].tid)) <= 1)
  /\ [](\A k \in DOMAIN extractionRuns :
          extractionRuns[k].attempts \in 1..MaxAttempts)
  /\ [][\A t \in Slots :
          /\ (turns'[t].tid = turns[t].tid /\ turns'[t].attempts # turns[t].attempts)
             => /\ turns'[t].attempts = turns[t].attempts + 1
                /\ turns[t].phase = "analyzing"
                /\ turns[t].attempts > 0 => turns[t].last = "transient"
          /\ (turns'[t].tid = turns[t].tid
              /\ turns[t].phase \in {"analyzed", "failed", "streaming", "done"})
             => turns'[t].attempts = turns[t].attempts]_vars

\* A structural error ended the sequence of a turn at its first attempt,
\* after an earlier turn had used its whole budget.
C5_Witness ==
  /\ turns["a"].phase = "failed"
  /\ turns["a"].attempts = 1
  /\ turns["a"].last = "structural"
  /\ \E k \in DOMAIN extractionRuns :
       extractionRuns[k].attempts = MaxAttempts /\ extractionRuns[k].outcome = "failure"

\* C6 as stated: the only change of a stored receipt's status is from a
\* status other than error to manually_corrected; a receipt with status
\* error keeps it, and no receipt is ever deleted.
C6_OnlyTransition ==
  [][ /\ Len(receipts') >= Len(receipts)
      /\ \A i \in DOMAIN receipts :
           receipts'[i].status # receipts[i].status
           => /\ receipts[i].status # "error"
              /\ receipts'[i].status = "manually_corrected" ]_vars

Saved == "Correccion manual guardada correctamente."

Without(q, k) == SubSeq(q, 1, k - 1) \o SubSeq(q, k + 1, Len(q))

\* C7: every PATCH the editor sends carries a status field, and every
\* correction that succeeds leaves the receipt with status
\* manually_corrected, whatever its status was and whatever status the
\* payload carried; the editor shows the receipt with that status.
C7_ManuallyCorrected ==
  /\ [](\A k \in DOMAIN editorReqs :
          editorReqs[k].kind = "save" => editorReqs[k].payload.status # "absent")
  /\ [](\A i \in DOMAIN receipts :
          receipts[i].fields = "manual" => receipts[i].status = "manually_corrected")
  /\ [][\A k \in DOMAIN editorReqs :
          (/\ editorReqs[k].kind = "save"
           /\ editorReqs' = Without(editorReqs, k)
           /\ editorMessage' = Saved)
          => /\ editorReqs[k].id \in DOMAIN receipts
             /\ receipts'[editorReqs[k].id].status = "manually_corrected"
             /\ editableReceipt'.status = "manually_corrected"
             /\ messages'[Len(messages')].data.status = "manually_corrected"]_vars

\* The editor has corrected a receipt that was stored with status error.
C7_Witness ==
  /\ editorMessage = Saved
  /\ receipts # <<>>
  /\ receipts[1].created = "error"
  /\ receipts[1].status = "manually_corrected"
  /\ editableReceipt # Null
  /\ editableReceipt.status = "manually_corrected"
  /\ messages # <<>>

\* C8: at most one turn holds a conversation at any time, so within a
\* conversation every user message is followed by the assistant message of
\* the same turn before the next user message; while the ChatPanel has a turn
\* in flight (loading), a submit starts no other turn and adds no message.
C8_OneTurnPerConversation ==
  /\ [](\A t1 \in Slots, t2 \in Slots, c \in DOMAIN conversations :
          (Holds(t1, c) /\ Holds(t2, c)) => t1 = t2)
  /\ [](\A c \in DOMAIN conversations : \A i \in DOMAIN conversations[c] :
          /\ i % 2 = 1 => conversations[c][i].role = "user"
          /\ i % 2 = 0 => /\ conversations[c][i].role = "assistant"
                          /\ conversations[c][i].tid = conversations[c][i - 1].tid)
  /\ [](\A t \in Slots, c \in DOMAIN conversations :
          Holds(t, c) => conversations[c][Len(conversations[c])] = UserMessage(t))
  /\ [](loading <=> pc # "idle")
  /\ [][loading => /\ Len(messages') = Len(messages)
                   /\ assistantId' = assistantId
                   /\ nTurns' > nTurns => turns'["p"] = turns["p"]]_vars

\* A turn of the API caller waits for the conversation that the panel's
\* running turn holds, while the user has typed the next message.
C8_Witness ==
  /\ loading
  /\ Trim(input) # <<>>
  /\ turns["a"].phase = "queued"
  /\ turns["a"].conv # 0
  /\ TurnError("a") = "none"
  /\ Holds("p", turns["a"].conv)
  /\ Len(conversations) = 2

InProgress == {"running", "analyzing", "analyzed", "failed", "streaming"}

\* C9: the user message of an accepted turn is in the conversation before
\* the analyzer is called and stays its last message until the assistant
\* message follows it; a completed turn has added exactly these two; no
\* message sequence, of a conversation or of the ChatPanel, ever loses or
\* reorders a message, and the panel adds the user message and the assistant
\* message of a submit together, whatever becomes of the request.
C9_AppendOnly ==
  /\ [](\A t \in Slots :
          /\ turns[t].phase \in InProgress
               => /\ turns[t].conv \in DOMAIN conversations
                  /\ conversations[turns[t].conv][Len(conversations[turns[t].conv])]
                       = UserMessage(t)
          /\ turns[t].phase = "done"
               => LET ms == conversations[turns[t].conv]
                  IN /\ Len(ms) >= 2
                     /\ ms[Len(ms) - 1] = UserMessage(t)
                     /\ ms[Len(ms)] = AssistantMessage(t)
          /\ turns[t].attempts > 0
               => \E i \in DOMAIN conversations[turns[t].conv] :
                    conversations[turns[t].conv][i] = UserMessage(t))
  /\ [](/\ Len(messages) = 2 * nTurns
        /\ \A i \in DOMAIN messages :
             /\ messages[i].id = i
             /\ messages[i].role = IF i % 2 = 1 THEN "user" ELSE "assistant")
  /\ [][/\ Len(conversations') >= Len(conversations)
        /\ \A c \in DOMAIN conversations : IsPrefix(conversations[c], conversations'[c])
        /\ Len(messages') >= Len(messages)
        /\ \A i \in DOMAIN messages :
             /\ messages'[i].id = messages[i].id
             /\ messages'[i].role = messages[i].role
             /\ messages[i].role = "user" => messages'[i] = messages[i]]_vars

\* Two turns of the panel have completed in one conversation, the first with
\* a failed extraction and the second with a stored receipt.
C9_Witness ==
  /\ pc = "idle"
  /\ Len(messages) = 4
  /\ Len(conversations) = 1
  /\ Len(conversations[1]) = 4
  /\ Len(receipts) = 2
  /\ receipts[1].status = "error"
  /\ receipts[2].status \in ProcessedStatuses

\* A text that trimming leaves empty.
Blank(s) == \A i \in DOMAIN s : s[i] = " "

\* The turn on slot t has neither text nor attachment.
Invalid(t) == turns[t].phase # "idle" /\ ~turns[t].text /\ turns[t].att = NoFile

\* C10: a turn with neither text nor attachment is only ever rejected, with
\* InvalidTurn, and no step of it creates a conversation, appends a message,
\* stores anything or emits an event; a form whose text is blank and that
\* has no file leaves the panel as it is: no request, no message, loading
\* still false.
C10_InvalidTurn ==
  /\ [](\A t \in Slots :
          Invalid(t) => /\ turns[t].phase \in {"queued", "rejected"}
                        /\ turns[t].attempts = 0
                        /\ emitted[t] = <<>>
                        /\ turns[t].phase = "rejected" => turns[t].error = "InvalidTurn")
  /\ [](turns["p"].phase # "idle" => ~Invalid("p"))
  /\ [][\A t \in Slots :
          (Invalid(t) /\ turns'[t] # turns[t])
          => /\ turns[t].phase = "queued" => turns'[t].phase = "rejected"
             /\ UNCHANGED <<conversations, receipts, extractionRuns, emitted, wire>>]_vars
  /\ [][(~loading /\ Blank(input) /\ file = NoFile)
        => /\ messages' = messages
           /\ loading' = loading
           /\ pc' = pc
           /\ turns'["p"] = turns["p"]
           /\ nextId' = nextId]_vars

\* An empty turn of the API caller stands rejected, the conversations are as
\* they were, and the panel shows a form with a blank text.
C10_Witness ==
  /\ turns["a"].phase = "rejected"
  /\ turns["a"].error = "InvalidTurn"
  /\ Len(conversations) = 1
  /\ Len(conversations[1]) = 2
  /\ ~loading
  /\ input = <<" ">>
  /\ Len(messages) = 2

DeltaKinds == {"deltaA", "deltaB", "deltaEmpty", "deltaBare", "deltaGarbled"}

\* The non-empty contents of the deltas among some events, in their order.
RECURSIVE Pieces(_)
Pieces(events) ==
  IF events = <<>> THEN <<>>
  ELSE (CASE Head(events) = "deltaA" -> <<"a">>
          [] Head(events) = "deltaB" -> <<"b">>
          [] OTHER -> <<>>) \o Pieces(Tail(events))

\* The events of the response that the reader has received whole, the blank
\* line that ends them included.
Arrived ==
  LET pos == Len(Body(turns["p"].sent, turns["p"].tail)) - Len(wire)
      whole == {k \in 0..Len(turns["p"].sent) :
                  Len(Frames(SubSeq(turns["p"].sent, 1, k))) <= pos}
  IN SubSeq(turns["p"].sent, 1, CHOOSE k \in whole : \A j \in whole : j <= k)

StartThenDeltas(events) ==
  /\ events # <<>>
  /\ events[1] = "start"
  /\ \A i \in 2..Len(events) : events[i] \in DeltaKinds

\* The assistant message of the pending call.
Shown == CHOOSE m \in {messages[i] : i \in DOMAIN messages} : m.id = assistantId

\* C11: while a response that began with start and went on with deltas is
\* read, the assistant message shows the non-empty contents of the deltas
\* received so far, in the order of their arrival; it shows the placeholder
\* until the first non-empty content arrives, and a delta whose content is
\* empty, missing or unreadable leaves it as it is.
C11_DeltaConcatenation ==
  (pc = "read" /\ StartThenDeltas(Arrived))
  => /\ Shown.text = IF Pieces(Arrived) = <<>> THEN Procesando ELSE Pieces(Arrived)
     /\ Shown.data = Undefined
     /\ hasDelta <=> Pieces(Arrived) # <<>>

\* A start and two deltas have arrived, part of a further event waits in the
\* buffer, and the contents of the deltas are shown in their order.
C11_Witness ==
  /\ pc = "read"
  /\ turns["p"].sent = <<"start", "deltaB", "deltaA">>
  /\ Arrived = turns["p"].sent
  /\ buffer # <<>>
  /\ Shown.text = <<"b", "a">>

\* The conversation that the final event handled last named, 0 if none was.
LastConversation == IF lastFinal = Null THEN 0 ELSE lastFinal.conversation_id

\* C12: a request carries the conversation_id of the final event handled
\* last, and none before any was handled; when a final event with a readable
\* payload has just been handled, the assistant message shows the payload's
\* assistant_message and data and conversationId is the payload's
\* conversation_id, and the end of the response leaves them so.
C12_ConversationId ==
  /\ [](conversationId = LastConversation)
  /\ [](\A c \in {1, 2} :
          (/\ pc = "read"
           /\ Arrived # <<>>
           /\ Arrived[Len(Arrived)] = (IF c = 1 THEN "final1" ELSE "final2"))
          => /\ Shown.text = FinalOf(c).assistant_message
             /\ Shown.data = FinalOf(c).data
             /\ conversationId = c
             /\ lastFinal = FinalOf(c)
             /\ gotFinal)
  /\ [][(turns["p"].phase = "idle" /\ turns'["p"].phase = "queued")
        => turns'["p"].conv = LastConversation]_vars
  /\ [][(pc = "read" /\ pc' = "idle" /\ wire = <<>> /\ gotFinal)
        => /\ messages' = messages
           /\ conversationId' = conversationId]_vars

\* The third request names conversation 2: the first response ended with a
\* final event of conversation 1, the second with one of conversation 2.
C12_Witness ==
  /\ turns["p"].phase = "queued"
  /\ turns["p"].conv = 2
  /\ Len(messages) = 6
  /\ messages[2].text = FinalOf(1).assistant_message
  /\ messages[4].text = FinalOf(2).assistant_message

FatalKinds == {"error", "errorBare", "finalGarbled"}

\* The first event of a response that makes the reader throw, 0 if none does.
FirstFatal(events) ==
  IF \E i \in DOMAIN events : events[i] \in FatalKinds
  THEN Min({i \in DOMAIN events : events[i] \in FatalKinds})
  ELSE 0

\* The response fails before it has delivered a readable final event.
FailsBeforeFinal(events) ==
  \A i \in DOMAIN events :
    events[i] \in {"final1", "final2"} => (FirstFatal(events) # 0 /\ FirstFatal(events) < i)

\* What the catch of sendMessage is handed for such a response.
Thrown(events) ==
  IF FirstFatal(events) = 0 THEN "El stream finalizo sin evento final"
  ELSE CASE events[FirstFatal(events)] = "error" -> "boom"
         [] events[FirstFatal(events)] = "errorBare" -> "Error en streaming"
         [] OTHER -> "No se pudo leer respuesta final del stream"

\* C13: when a response delivers an error event or an unreadable final event
\* before any readable final event, or ends without one, the call ends with
\* the assistant message of the turn showing "Error: " and the reason, its
\* data cleared, every other message and conversationId as they were when
\* the request was sent, and loading false; what the response holds after
\* that event changes nothing, then or later.
C13_StreamFailure ==
  /\ [][(pc = "read" /\ pc' = "idle" /\ FailsBeforeFinal(turns["p"].sent))
        => /\ Len(messages') = Len(messages)
           /\ \A i \in DOMAIN messages :
                IF messages[i].id = assistantId
                THEN /\ messages'[i].text = <<"Error: ", Thrown(turns["p"].sent)>>
                     /\ messages'[i].data = Undefined
                     /\ messages'[i].role = "assistant"
                ELSE messages'[i] = messages[i]
           /\ conversationId' = turns["p"].conv
           /\ conversationId' = conversationId
           /\ ~gotFinal'
           /\ ~loading'
           /\ wire' = <<>>]_vars
  /\ [][(pc = "idle" /\ pc' = "idle")
        => messages' = messages /\ conversationId' = conversationId]_vars

\* A start, a delta and an unreadable final event have been handled: the
\* text of the delta has given way to the error.
C13_Witness ==
  /\ pc = "idle"
  /\ consumed = <<"start", "delta", "final">>
  /\ hasDelta
  /\ ~gotFinal
  /\ conversationId = 0
  /\ messages[2].text = <<"Error: ", "No se pudo leer respuesta final del stream">>

\* The response text received so far by the pending call.
Received ==
  SubSeq(Body(turns["p"].sent, turns["p"].tail), 1,
         Len(Body(turns["p"].sent, turns["p"].tail)) - Len(wire))

\* The loop's state after it was handed a text in one piece.
AtOnce(text) ==
  LET blocks == SplitBlocks(text)
  IN HandleBlocks(
       [messages |-> patchMessage(messages, assistantId,
                                  [text |-> Procesando, data |-> Undefined]),
        conversationId |-> turns["p"].conv, hasDelta |-> FALSE, gotFinal |-> FALSE,
        thrown |-> "none", consumed |-> <<>>, lastFinal |-> Null],
       assistantId, SubSeq(blocks, 1, Len(blocks) - 1))

\* The event types of the events with data, up to the first that throws.
RECURSIVE TypesOf(_)
TypesOf(events) ==
  IF events = <<>> THEN <<>>
  ELSE LET kind == Head(events)
       IN IF kind = "ping" THEN TypesOf(Tail(events))
          ELSE IF kind \in FatalKinds
          THEN <<IF kind = "finalGarbled" THEN "final" ELSE "error">>
          ELSE <<CASE kind = "start" -> "start"
                   [] kind \in DeltaKinds -> "delta"
                   [] OTHER -> "final">> \o TypesOf(Tail(events))

\* C15: however the response is split into chunks, the reader is where one
\* read of the same text would have put it: the same events handled in the
\* same order, the same messages, the same rest in the buffer; and when the
\* call ends it has handled every event that a blank line ended, once and in
\* order, up to the first that throws, and nothing of the text after the
\* last blank line.
C15_ChunkIndependence ==
  /\ [](pc = "read"
        => LET one == AtOnce(Received)
               blocks == SplitBlocks(Received)
           IN /\ one.thrown = "none"
              /\ consumed = one.consumed
              /\ messages = one.messages
              /\ conversationId = one.conversationId
              /\ hasDelta = one.hasDelta
              /\ gotFinal = one.gotFinal
              /\ buffer = blocks[Len(blocks)]
              /\ consumed = TypesOf(Arrived))
  /\ [][(pc = "read" /\ pc' = "idle")
        => LET whole == AtOnce(Body(turns["p"].sent, turns["p"].tail))
           IN /\ consumed' = whole.consumed
              /\ consumed' = TypesOf(turns["p"].sent)
              /\ conversationId' = whole.conversationId
              /\ messages' =
                   IF whole.thrown # "none"
                   THEN CatchError(whole.messages, assistantId, whole.thrown)
                   ELSE IF whole.gotFinal THEN whole.messages
                   ELSE CatchError(whole.messages, assistantId,
                                   "El stream finalizo sin evento final")]_vars

\* A chunk has ended in the middle of the third event: two events are
\* handled, the beginning of the third waits in the buffer for the rest.
C15_Witness ==
  /\ pc = "read"
  /\ consumed = <<"start", "delta">>
  /\ Len(buffer) = 2
  /\ Len(wire) >= 3
  /\ Len(turns["p"].sent) = 3
  /\ turns["p"].sent[3] = "final1"

\* C14: a submit that is accepted (it adds the two messages of a turn) is
\* made while loading is false and sets it; loading is true exactly while
\* the call is pending; and whenever loading is true it becomes false again,
\* whichever way the request ends.
C14_LoadingReset ==
  /\ [][Len(messages') = Len(messages) + 2 => (~loading /\ loading')]_vars
  /\ [](loading <=> pc # "idle")
  /\ (loading ~> ~loading)

\* Two turns have ended, each in another way: the response of the first
\* was no event stream, the response of the second closed without a final
\* event after a delta.
C14_Witness ==
  /\ ~loading
  /\ Len(messages) = 4
  /\ messages[2].text = <<"Error: ", "Respuesta inesperada del servidor (sin SSE)">>
  /\ messages[4].text = <<"Error: ", "El stream finalizo sin evento final">>
  /\ consumed = <<"delta">>

\* C16: whatever the interleaving of the editor's load and save requests,
\* editorLoading is true while any of them is still in flight, and at the
\* moment the last of them settles the receipt in the editor is the one of
\* the request issued last (when that receipt exists).
C16_EditorRequests ==
  /\ [](editorReqs # <<>> => editorLoading)
  /\ [][(/\ editorReqs # <<>>
         /\ editorReqs' = <<>>
         /\ lastIssued \in DOMAIN receipts)
        => /\ editableReceipt' # Null
           /\ editableReceipt'.id = lastIssued]_vars

====
